---- MODULE Spec2Model ----
(***************************************************************************)
(* The account lifecycle of the classifier: the two persisted account      *)
(* collections (accounts_relevant.json, accounts_irrelevant.json), the     *)
(* in-memory maps of one AccountClassifier process, the pipeline           *)
(* process_user (metric gate, activity gate, content gate, save_account)   *)
(* and the re-evaluation scripts that rewrite the two files.               *)
(*                                                                         *)
(* Time is counted in ticks of half a day, so that timedelta.days is a     *)
(* real floor.  A Python dict is a sequence of records with distinct ids   *)
(* in insertion order; a JSON array is a sequence of records.              *)
(***************************************************************************)
EXTENDS Integers, Sequences, FiniteSets, TLC

\* ---------------------------------------------------------------- bounds
NumAccounts == 2
MaxAdvances == 1
MaxOps == 4
MaxFileLen == 3
MaxFetched == 2
MaxRecent == 1
TicksPerDay == 2
MaxPages == 2
MaxPosts == 2
MaxBatch == 2
MaxPids == 3

\* ------------------------------------------------------ program constants
max_followers == 2000
min_tweets == 300
tweets_per_user == 5
RatioNum == 4
RatioDen == 10
classification_threshold == 80
DECAY_DAYS == 30
DAYS_BACK == 30
MAX_FOLLOWERS == 2000
max_retries == 3
base_delay == 1
post_cap_monthly == 15000
max_pages == 5
default_wait == 60
max_wait == 900
page_retry_delay == 10
keywords == <<"web3", "AI">>

\* the lengths of time, in ticks, the clock can move by in one step: 29 days,
\* 30 days and 31 days, a tick more than 29 days, and 100 days
Jumps == {29 * TicksPerDay, 29 * TicksPerDay + 1, DECAY_DAYS * TicksPerDay,
          31 * TicksPerDay, 100 * TicksPerDay}

\* int(time.time()) when the client reads it, and the reset times the API
\* can name relative to it
CurrentTime == 1000
ResetDeltas == {-5, 0, 1, 30, 900, 901, 5000}

Ids == 1..NumAccounts
NoTime == -1
\* classified_at that is the empty string, and one that fromisoformat rejects
EmptyTime == -2
MalformedTime == -3
Failed == -1
FollowerValues == {max_followers - 1, max_followers}
TweetCounts == {min_tweets, min_tweets + 1}

VARIABLES
    now,                  \* wall clock, in ticks
    advances,             \* how many times the clock has moved
    ops,                  \* users submitted to the pipeline and script runs so far
    relevant_file,        \* data/accounts_relevant.json, a JSON array
    irrelevant_file,      \* data/accounts_irrelevant.json, a JSON array
    relevant_accounts,    \* AccountClassifier.relevant_accounts
    irrelevant_accounts,  \* AccountClassifier.irrelevant_accounts
    pc,                   \* where the classifier process stands
    entry,                \* the entry point that built the classifier
    irrelevants_dict,     \* reevaluate_irrelevant's own snapshot of the file
    pos,                  \* reevaluate_irrelevant's place in that snapshot
    fresh_data,           \* reevaluate_irrelevant: what the last lookup gave
    cur,                  \* the user_data process_user is working on
    results,              \* what the classifier call gave back for it
    loaded_at,            \* when load_existing_accounts last ran
    \* the HTTP client of AccountClassifier
    keyword,              \* run(): index of the keyword being processed
    page,                 \* fetch_recent_tweets: the page of the for loop
    users_map,            \* fetch_recent_tweets: users kept so far; then run()'s list
    tweets_found,         \* fetch_recent_tweets: all_tweets is not empty
    retry_count,          \* the retry counter of the fetch call in progress
    failures,             \* attempts of that call that ended in a 429 or an error
    wait_time,            \* seconds slept before the retry, 0 when none
    response,             \* the response to the last attempt
    post_cap_used,        \* AccountClassifier.post_cap_used
    \* the tweet store of fetch_tweets.py
    fetcher,              \* where the FetchTweets process stands
    all_tweets,           \* FetchTweets.all_tweets: account -> list of posts
    tweets_file,          \* data/all_tweets.json: account -> list of posts
    user_id,              \* process_account: the account in hand, 0 when none
    fetched_tweets,       \* process_account: the batch fetch_user_tweets returned
    cursor_used,          \* account -> the last latest_collected_time used for it
    last_merged,          \* the account and batch of the last merge, and how
                          \* many merges in a row were of that batch
    \* what the purge pass reads besides the two account files
    metrics,              \* account -> followers_count now, or Failed
    recent_posts,         \* account -> number of stored posts newer than the cutoff
    \* what an entry point finds on disk when it starts
    corrupt,              \* the account files whose text is not valid JSON
    lock_file,            \* account_classifier.lock: the pid in it, NoLock when absent
    instance,             \* each launch of fetch_accounts.py: where it stands, its
                          \* pid, and the pid it read from the lock
    next_pid              \* the pid the next process gets

\* the account stores and the classifier process
lifecycle == <<now, advances, ops, relevant_file, irrelevant_file, relevant_accounts,
               irrelevant_accounts, pc, entry, irrelevants_dict, pos, fresh_data,
               cur, results, loaded_at>>

client == <<keyword, page, users_map, tweets_found, retry_count, failures,
            wait_time, response, post_cap_used>>

tweet_store == <<fetcher, all_tweets, tweets_file, user_id, fetched_tweets,
                 cursor_used, last_merged>>

lookups == <<metrics, recent_posts>>

guard == <<lock_file, instance, next_pid>>

startup == <<corrupt, guard>>

\* what the account lifecycle leaves alone
others == <<client, tweet_store, lookups, startup>>

vars == <<lifecycle, client, tweet_store, lookups, startup>>

\* ------------------------------------------------------------ dictionaries
IdsOf(d) == {d[i].id : i \in DOMAIN d}

Has(d, id) == \E i \in DOMAIN d : d[i].id = id

\* d[id]: the record stored under id
Get(d, id) == d[CHOOSE i \in DOMAIN d : d[i].id = id]

\* d[rec.id] = rec: an existing key keeps its place, a new key goes last
DictSet(d, rec) ==
    IF Has(d, rec.id)
    THEN [i \in DOMAIN d |-> IF d[i].id = rec.id THEN rec ELSE d[i]]
    ELSE Append(d, rec)

\* del d[id]
DictDel(d, id) == SelectSeq(d, LAMBDA r : r.id # id)

\* for acc in accounts: d[acc["id"]] = acc
RECURSIVE FromListInto(_, _)
FromListInto(d, accounts) ==
    IF accounts = <<>> THEN d
    ELSE FromListInto(DictSet(d, Head(accounts)), Tail(accounts))

FromList(accounts) == FromListInto(<<>>, accounts)

\* ----------------------------------------------------------------- records
\* a user object as the API returns it, with the fields the pipeline reads
UserData(id, followers, tweets) ==
    [id |-> id, followers_count |-> followers, tweet_count |-> tweets]

\* the record kept in a map and written to a file for user_data: its id and
\* the classification fields.  The copy of public_metrics stored with it is
\* never read again by any operation (every gate and every script reads
\* freshly fetched metrics), nor are username, description and
\* last_relevant_tweet_count, so the stored record leaves them out.
Stored(user_data, classified, flag) ==
    [id |-> user_data.id, classified_at |-> classified,
     too_many_followers |-> flag, last_checked_at |-> NoTime]

NoUser == UserData(0, 0, 0)

\* process_user's locals, and what it has done so far for this user
NoCur == [user |-> NoUser, fetched |-> FALSE, classified |-> FALSE,
          recent |-> 0, decision |-> "none"]

\* ------------------------------------------------------------------- decay
\* (now_utc - classified_time).days
DaysElapsed(t, classified) == (t - classified) \div TicksPerDay

\* the mutant of Keeps that forgets the permanent flag
KeepsIgnoringFlag(account_data, t) ==
    \/ account_data.classified_at \in {NoTime, EmptyTime}
    \/ account_data.classified_at = MalformedTime
    \/ DaysElapsed(t, account_data.classified_at) < DECAY_DAYS

\* the mutant of Keeps that keeps an account through its 31st day
KeepsThroughDay31(account_data, t) ==
    \/ account_data.too_many_followers
    \/ account_data.classified_at \in {NoTime, EmptyTime}
    \/ account_data.classified_at = MalformedTime
    \/ DaysElapsed(t, account_data.classified_at) <= DECAY_DAYS + 1

\* the mutant of Keeps that keeps an unflagged account only on a timestamp
\* it can parse
KeepsParsableOnly(account_data, t) ==
    \/ account_data.too_many_followers
    \/ /\ account_data.classified_at >= 0
       /\ DaysElapsed(t, account_data.classified_at) < DECAY_DAYS

\* whether the age-out loop copies the record into fresh_irrelevant: the
\* flag, "if not classified_str" for a missing or empty classified_at, the
\* ValueError of fromisoformat, and the age
Keeps(account_data, t) ==
    \/ account_data.too_many_followers
    \/ account_data.classified_at \in {NoTime, EmptyTime}
    \/ account_data.classified_at = MalformedTime
    \/ DaysElapsed(t, account_data.classified_at) < DECAY_DAYS

Decay(d, t) == SelectSeq(d, LAMBDA r : Keeps(r, t))

\* ------------------------------------------------------------------ files
stores == <<relevant_file, irrelevant_file, relevant_accounts, irrelevant_accounts>>
files == <<relevant_file, irrelevant_file>>
memory == <<relevant_accounts, irrelevant_accounts>>

\* ------------------------------------------------------------ the pipeline
\* the mutant of meets_metric_thresholds that tests the followers alone
MeetsFollowersOnly(user_data) == user_data.followers_count < max_followers

meets_metric_thresholds(user_data) ==
    /\ user_data.followers_count < max_followers
    /\ user_data.tweet_count > min_tweets

\* the inline filter of fetch_recent_tweets on includes.users
PreFilter(user_data) ==
    /\ user_data.tweet_count >= min_tweets
    /\ user_data.followers_count < max_followers

\* the mutant of RatioMet with a strict comparison
RatioStrict(relevant_tweets, n) == relevant_tweets * RatioDen > n * RatioNum

\* relevant_tweets >= len(tweets) * self.relevant_tweet_ratio, the ratio
\* 0.4 as RatioNum / RatioDen (for n <= tweets_per_user the float product
\* is on the same side of every integer as the exact one)
RatioMet(relevant_tweets, n) == relevant_tweets * RatioDen >= n * RatioNum

\* what the classifier call gives back for n texts: it raises, or it
\* returns for each text the highest of its label scores, in hundredths
ScoreValues == {classification_threshold - 1, classification_threshold,
                classification_threshold + 1}

Raised == [raised |-> TRUE, scores |-> <<>>]

NoResults == [raised |-> FALSE, scores |-> <<>>]

Results(n) == {Raised} \cup {[raised |-> FALSE, scores |-> s] : s \in [1..n -> ScoreValues]}

\* any(score > self.classification_threshold for score in result["scores"])
IsRelevantTweet(score) == score > classification_threshold

\* relevant_tweets, as the loop over results counts it
RelevantTweets(scores) ==
    Cardinality({i \in DOMAIN scores : IsRelevantTweet(scores[i])})

\* the mutant of classify_tweets that lets an exception count as relevant
ClassifyFailOpen(n, result) ==
    IF n = 0 THEN FALSE
    ELSE IF result.raised THEN TRUE
    ELSE RatioMet(RelevantTweets(result.scores), n)

\* classify_tweets on n texts
classify_tweets(n, result) ==
    IF n = 0 THEN FALSE
    ELSE IF result.raised THEN FALSE
    ELSE RatioMet(RelevantTweets(result.scores), n)

\* the mutant of the activity gate that never takes the early exit
NeverSkips(n) == FALSE

\* len(recent_tweets) == 0
NoRecentTweets(n) == n = 0

\* the mutant of save_account that updates the maps and writes no file
SaveInMemoryOnly(user_data, relevant) ==
    IF relevant
    THEN LET rec == Stored(user_data, now, FALSE) IN
         /\ irrelevant_accounts' = DictDel(irrelevant_accounts, rec.id)
         /\ relevant_accounts' = DictSet(relevant_accounts, rec)
         /\ UNCHANGED files
    ELSE LET rec == Stored(user_data, now,
                           user_data.followers_count >= max_followers) IN
         /\ relevant_accounts' = DictDel(relevant_accounts, rec.id)
         /\ irrelevant_accounts' = DictSet(irrelevant_accounts, rec)
         /\ UNCHANGED files

\* the mutant of save_account whose relevant map keeps only the account saved
SaveOnlyThis(user_data, relevant) ==
    IF relevant
    THEN LET rec == Stored(user_data, now, FALSE) IN
         /\ irrelevant_accounts' = DictDel(irrelevant_accounts, rec.id)
         /\ relevant_accounts' = <<rec>>
         /\ relevant_file' = relevant_accounts'
         /\ UNCHANGED irrelevant_file
    ELSE LET rec == Stored(user_data, now,
                           user_data.followers_count >= max_followers) IN
         /\ relevant_accounts' = DictDel(relevant_accounts, rec.id)
         /\ irrelevant_accounts' = DictSet(irrelevant_accounts, rec)
         /\ irrelevant_file' = irrelevant_accounts'
         /\ UNCHANGED relevant_file

\* the mutant of save_account whose promotion keeps the flag of the record
\* it replaces
SaveKeepingFlag(user_data, relevant) ==
    IF relevant
    THEN LET rec == Stored(user_data, now,
                           /\ Has(irrelevant_accounts, user_data.id)
                           /\ Get(irrelevant_accounts, user_data.id).too_many_followers) IN
         /\ irrelevant_accounts' = DictDel(irrelevant_accounts, rec.id)
         /\ relevant_accounts' = DictSet(relevant_accounts, rec)
         /\ relevant_file' = relevant_accounts'
         /\ UNCHANGED irrelevant_file
    ELSE LET rec == Stored(user_data, now,
                           user_data.followers_count >= max_followers) IN
         /\ relevant_accounts' = DictDel(relevant_accounts, rec.id)
         /\ irrelevant_accounts' = DictSet(irrelevant_accounts, rec)
         /\ irrelevant_file' = irrelevant_accounts'
         /\ UNCHANGED relevant_file

\* the mutant of save_account that flags every account it demotes
SaveFlaggingAll(user_data, relevant) ==
    IF relevant
    THEN LET rec == Stored(user_data, now, FALSE) IN
         /\ irrelevant_accounts' = DictDel(irrelevant_accounts, rec.id)
         /\ relevant_accounts' = DictSet(relevant_accounts, rec)
         /\ relevant_file' = relevant_accounts'
         /\ UNCHANGED irrelevant_file
    ELSE LET rec == Stored(user_data, now, TRUE) IN
         /\ relevant_accounts' = DictDel(relevant_accounts, rec.id)
         /\ irrelevant_accounts' = DictSet(irrelevant_accounts, rec)
         /\ irrelevant_file' = irrelevant_accounts'
         /\ UNCHANGED relevant_file

\* the mutant of save_account that leaves the other map as it is
SaveWithoutRemoving(user_data, relevant) ==
    IF relevant
    THEN LET rec == Stored(user_data, now, FALSE) IN
         /\ relevant_accounts' = DictSet(relevant_accounts, rec)
         /\ relevant_file' = relevant_accounts'
         /\ UNCHANGED <<irrelevant_accounts, irrelevant_file>>
    ELSE LET rec == Stored(user_data, now,
                           user_data.followers_count >= max_followers) IN
         /\ irrelevant_accounts' = DictSet(irrelevant_accounts, rec)
         /\ irrelevant_file' = irrelevant_accounts'
         /\ UNCHANGED <<relevant_accounts, relevant_file>>

\* save_account(user_data, relevant): user_data is fresh from the API and
\* carries no flag of its own.  The write of the file is one step: it is
\* taken to succeed and to be whole.
save_account(user_data, relevant) ==
    IF relevant
    THEN LET rec == Stored(user_data, now, FALSE) IN
         /\ irrelevant_accounts' = DictDel(irrelevant_accounts, rec.id)
         /\ relevant_accounts' = DictSet(relevant_accounts, rec)
         /\ relevant_file' = relevant_accounts'
         /\ UNCHANGED irrelevant_file
    ELSE LET rec == Stored(user_data, now,
                           user_data.followers_count >= max_followers) IN
         /\ relevant_accounts' = DictDel(relevant_accounts, rec.id)
         /\ irrelevant_accounts' = DictSet(irrelevant_accounts, rec)
         /\ irrelevant_file' = irrelevant_accounts'
         /\ UNCHANGED relevant_file

\* the mutant of process_user that returns from the metric gate without
\* its wait
ProcessUserUnpaced(user_data) ==
    /\ ops < MaxOps
    /\ ops' = ops + 1
    /\ IF ~meets_metric_thresholds(user_data)
       THEN /\ save_account(user_data, FALSE)
            /\ cur' = [NoCur EXCEPT !.user = user_data, !.decision = "metric"]
            /\ pc' = "idle"
       ELSE /\ cur' = [NoCur EXCEPT !.user = user_data]
            /\ pc' = "fetch"
            /\ UNCHANGED stores
    /\ UNCHANGED results

\* process_user up to its first await: the metric gate
process_user(user_data) ==
    /\ ops < MaxOps
    /\ ops' = ops + 1
    /\ IF ~meets_metric_thresholds(user_data)
       THEN /\ save_account(user_data, FALSE)
            /\ cur' = [NoCur EXCEPT !.user = user_data, !.decision = "metric"]
            /\ pc' = "pace"
       ELSE /\ cur' = [NoCur EXCEPT !.user = user_data]
            /\ pc' = "fetch"
            /\ UNCHANGED stores
    /\ UNCHANGED results

\* AccountClassifier.__init__ and load_existing_accounts, and before them
\* the snapshot reevaluate_irrelevant takes of the irrelevant file
Start(e) ==
    /\ pc = "off"
    /\ corrupt = {}
    /\ e = "reeval" => FromList(irrelevant_file) # <<>>
    /\ relevant_accounts' = FromList(relevant_file)
    /\ irrelevant_accounts' = Decay(FromList(irrelevant_file), now)
    /\ irrelevants_dict' = IF e = "reeval" THEN FromList(irrelevant_file) ELSE <<>>
    /\ pos' = 1
    /\ entry' = e
    /\ pc' = "idle"
    /\ loaded_at' = now
    /\ UNCHANGED <<now, advances, ops, files, fresh_data, cur, results>>
    /\ UNCHANGED others

\* run(): one user of users_map, which passed the inline filter
CrawlUser(id, followers, tweets) ==
    /\ pc = "idle"
    /\ entry = "crawl"
    /\ PreFilter(UserData(id, followers, tweets))
    /\ process_user(UserData(id, followers, tweets))
    /\ UNCHANGED <<now, advances, entry, irrelevants_dict, pos, fresh_data, loaded_at>>
    /\ UNCHANGED others

\* classify_usernames: one username, looked up and processed
OnDemandUser(id, followers, tweets) ==
    /\ pc = "idle"
    /\ entry = "on_demand"
    /\ process_user(UserData(id, followers, tweets))
    /\ UNCHANGED <<now, advances, entry, irrelevants_dict, pos, fresh_data, loaded_at>>
    /\ UNCHANGED others

\* the mutant of PermanentlyIrrelevant that skips no account
SkipsNone(user_data) == FALSE

\* if user_data.get("too_many_followers"): skip permanently irrelevant
PermanentlyIrrelevant(user_data) == user_data.too_many_followers

\* reevaluate_irrelevant: the next user of the snapshot is skipped, because
\* it is flagged or because no fresh data came back
ReevalSkip(fresh) ==
    /\ pc = "idle"
    /\ entry = "reeval"
    /\ pos <= Len(irrelevants_dict)
    /\ PermanentlyIrrelevant(irrelevants_dict[pos]) \/ fresh = Failed
    /\ pos' = pos + 1
    /\ fresh_data' = IF PermanentlyIrrelevant(irrelevants_dict[pos]) THEN "none" ELSE "empty"
    /\ UNCHANGED <<now, advances, ops, stores, pc, entry, irrelevants_dict, cur, results, loaded_at>>
    /\ UNCHANGED others

\* reevaluate_irrelevant: the next user of the snapshot is re-processed
\* with its fresh data
ReevalUser(followers, tweets) ==
    /\ pc = "idle"
    /\ entry = "reeval"
    /\ pos <= Len(irrelevants_dict)
    /\ ~PermanentlyIrrelevant(irrelevants_dict[pos])
    /\ process_user(UserData(irrelevants_dict[pos].id, followers, tweets))
    /\ pos' = pos + 1
    /\ fresh_data' = "fetched"
    /\ UNCHANGED <<now, advances, entry, irrelevants_dict, loaded_at>>
    /\ UNCHANGED others

\* tweets[:self.tweets_per_user], within the model's bound
FetchLimit == IF MaxFetched < tweets_per_user THEN MaxFetched ELSE tweets_per_user

\* fetch_user_tweets returns n texts (none also when it gave up), and the
\* activity gate
FetchUserTweets(n) ==
    /\ pc = "fetch"
    /\ IF NoRecentTweets(n)
       THEN /\ cur' = [cur EXCEPT !.fetched = TRUE, !.decision = "skip"]
            /\ pc' = "pace"
       ELSE /\ cur' = [cur EXCEPT !.fetched = TRUE, !.recent = n]
            /\ pc' = "classify"
    /\ UNCHANGED <<now, advances, ops, stores, entry, irrelevants_dict, pos, fresh_data, results, loaded_at>>
    /\ UNCHANGED others

\* the content gate: classify_tweets, then save_account
ClassifyAndSave(result) ==
    /\ pc = "classify"
    /\ LET is_relevant == classify_tweets(cur.recent, result) IN
        /\ save_account(cur.user, is_relevant)
        /\ cur' = [cur EXCEPT !.classified = TRUE, !.recent = 0,
                       !.decision = IF is_relevant THEN "relevant" ELSE "irrelevant"]
    /\ results' = result
    /\ pc' = "pace"
    /\ UNCHANGED <<now, advances, ops, entry, irrelevants_dict, pos, fresh_data, loaded_at>>
    /\ UNCHANGED others

\* the fixed delay that ends process_user
Pace ==
    /\ pc = "pace"
    /\ pc' = "idle"
    /\ cur' = NoCur
    /\ results' = NoResults
    /\ fresh_data' = "none"
    /\ UNCHANGED <<now, advances, ops, stores, entry, irrelevants_dict, pos, loaded_at>>
    /\ UNCHANGED others

\* the entry point returns and the process ends
Exit ==
    /\ pc = "idle"
    /\ entry = "reeval" => pos > Len(irrelevants_dict)
    /\ pc' = "off"
    /\ entry' = "none"
    /\ relevant_accounts' = <<>>
    /\ irrelevant_accounts' = <<>>
    /\ irrelevants_dict' = <<>>
    /\ pos' = 1
    /\ fresh_data' = "none"
    /\ UNCHANGED <<now, advances, ops, files, cur, results, loaded_at>>
    /\ UNCHANGED others

\* the process is killed, or an exception ends it, at any point: what it held
\* in memory is gone and the files stay as they were last written (a write
\* is taken as one step)
Crash ==
    /\ pc \in {"idle", "fetch", "classify", "pace"}
    /\ pc' = "off"
    /\ entry' = "none"
    /\ relevant_accounts' = <<>>
    /\ irrelevant_accounts' = <<>>
    /\ irrelevants_dict' = <<>>
    /\ pos' = 1
    /\ fresh_data' = "none"
    /\ cur' = NoCur
    /\ results' = NoResults
    /\ UNCHANGED <<now, advances, ops, files, loaded_at>>
    /\ UNCHANGED others

\* Between the metric gate and the save of one process_user the classifier
\* neither reads nor writes a store or the clock, so a script run or a clock
\* move in that window has the effect of the same step taken just before the
\* user was submitted: those steps are taken only while no user is in flight.
Quiet == pc \in {"off", "idle"}

\* ------------------------------------------------- reclassify_relevant.py
\* the loop of reclassify_large_accounts over the relevant accounts; m gives
\* each account's freshly fetched followers_count, or Failed
RECURSIVE ReclassifyLoop(_, _, _, _, _)
ReclassifyLoop(todo, m, t, updated_relevant, irrelevant) ==
    IF todo = <<>> THEN <<updated_relevant, irrelevant>>
    ELSE LET user_data == Head(todo) IN
         IF m[user_data.id] = Failed
         THEN ReclassifyLoop(Tail(todo), m, t,
                             DictSet(updated_relevant, user_data), irrelevant)
         ELSE IF m[user_data.id] >= MAX_FOLLOWERS
         THEN ReclassifyLoop(Tail(todo), m, t, updated_relevant,
                             DictSet(irrelevant,
                                     [user_data EXCEPT !.too_many_followers = TRUE,
                                                       !.classified_at = t]))
         ELSE ReclassifyLoop(Tail(todo), m, t,
                             DictSet(updated_relevant, user_data), irrelevant)

\* the two loads of reclassify_large_accounts: a file that does not parse
\* is logged and gives the empty dict
LoadOrEmpty(accounts, name) == IF name \in corrupt THEN <<>> ELSE FromList(accounts)

\* one run of the script: it returns when it has no relevant account, and
\* else rewrites both files
ReclassifyPass(m) ==
    /\ ops < MaxOps
    /\ ops' = ops + 1
    /\ Quiet
    /\ LoadOrEmpty(relevant_file, "relevant") # <<>>
    /\ LET done == ReclassifyLoop(LoadOrEmpty(relevant_file, "relevant"), m, now, <<>>,
                                  LoadOrEmpty(irrelevant_file, "irrelevant")) IN
        /\ relevant_file' = done[1]
        /\ irrelevant_file' = done[2]
    /\ corrupt' = {}
    /\ UNCHANGED guard
    /\ UNCHANGED <<now, advances, memory, pc, entry, irrelevants_dict, pos, fresh_data, cur, results, loaded_at>>

reclassify_large_accounts(m) ==
    /\ ReclassifyPass(m)
    /\ UNCHANGED <<client, tweet_store, lookups>>

\* ------------------------------------------ reevaluate_relevant_accounts.py
\* (now - last_checked_at).days, last_checked_at defaulting to 1970
DaysSinceChecked(account, t) ==
    IF account.last_checked_at = NoTime THEN DAYS_BACK + 1
    ELSE (t - account.last_checked_at) \div TicksPerDay

\* the loop of purge_irrelevant_accounts over the relevant array; recent
\* gives the number of the account's stored posts newer than the cutoff, m
\* its freshly fetched followers_count, or Failed
RECURSIVE PurgeLoop(_, _, _, _, _, _)
PurgeLoop(todo, recent, m, t, remaining_relevant, purged_accounts) ==
    IF todo = <<>> THEN <<remaining_relevant, purged_accounts>>
    ELSE LET account == Head(todo)
             followers == IF m[account.id] = Failed THEN 0 ELSE m[account.id]
             checked == [account EXCEPT !.last_checked_at = t]
         IN  IF recent[account.id] = 0 /\ DaysSinceChecked(account, t) > DAYS_BACK
             THEN PurgeLoop(Tail(todo), recent, m, t, remaining_relevant,
                            Append(purged_accounts, checked))
             ELSE IF followers >= MAX_FOLLOWERS
             THEN PurgeLoop(Tail(todo), recent, m, t, remaining_relevant,
                            Append(purged_accounts,
                                   [checked EXCEPT !.too_many_followers = TRUE]))
             ELSE PurgeLoop(Tail(todo), recent, m, t,
                            Append(remaining_relevant, checked), purged_accounts)

\* one run of the script, given what its lookups return
PurgePass(recent, m) ==
    /\ ops < MaxOps
    /\ ops' = ops + 1
    /\ Quiet
    /\ corrupt = {}
    /\ relevant_file # <<>>
    /\ Len(relevant_file) + Len(irrelevant_file) <= MaxFileLen
    /\ LET done == PurgeLoop(relevant_file, recent, m, now, <<>>, <<>>) IN
        /\ relevant_file' = done[1]
        /\ irrelevant_file' = irrelevant_file \o done[2]
    /\ UNCHANGED <<now, advances, memory, pc, entry, irrelevants_dict, pos, fresh_data, cur, results, loaded_at>>

purge_irrelevant_accounts(recent, m) ==
    /\ PurgePass(recent, m)
    /\ UNCHANGED others

\* time passes
Advance(d) ==
    /\ Quiet
    /\ advances < MaxAdvances
    /\ advances' = advances + 1
    /\ now' = now + d
    /\ UNCHANGED <<ops, stores, pc, entry, irrelevants_dict, pos, fresh_data, cur, results, loaded_at>>
    /\ UNCHANGED others

\* the state of the client before any call
ClientInit ==
    /\ keyword = 1
    /\ page = 0
    /\ users_map = <<>>
    /\ tweets_found = FALSE
    /\ retry_count = 0
    /\ failures = 0
    /\ wait_time = 0
    /\ response = [status |-> 0, reset |-> [kind |-> "absent", value |-> 0], at |-> 0]
    /\ post_cap_used = 0

\* the tweet store before fetch_tweets.py has run
TweetsInit ==
    /\ fetcher = "off"
    /\ all_tweets = <<>>
    /\ tweets_file = <<>>
    /\ user_id = 0
    /\ fetched_tweets = <<>>
    /\ cursor_used = [i \in Ids |-> NoTime]
    /\ last_merged = [user_id |-> 0, tweets |-> <<>>, times |-> 0]

\* no lookup answered yet
LookupsInit ==
    /\ metrics = [i \in Ids |-> Failed]
    /\ recent_posts = [i \in Ids |-> 0]

\* no lock file, and no process of fetch_accounts.py
NoLock == 0

Procs == {1, 2}

NotLaunched == [pc |-> "off", pid |-> NoLock, seen |-> NoLock]

GuardInit ==
    /\ lock_file = NoLock
    /\ instance = [p \in Procs |-> NotLaunched]
    /\ next_pid = 1

\* both account files parse
StartupInit == corrupt = {} /\ GuardInit

Init ==
    /\ now = 0
    /\ advances = 0
    /\ ops = 0
    /\ relevant_file = <<>>
    /\ irrelevant_file = <<>>
    /\ relevant_accounts = <<>>
    /\ irrelevant_accounts = <<>>
    /\ pc = "off"
    /\ entry = "none"
    /\ irrelevants_dict = <<>>
    /\ pos = 1
    /\ cur = NoCur
    /\ results = NoResults
    /\ loaded_at = 0
    /\ fresh_data = "none"
    /\ ClientInit
    /\ TweetsInit
    /\ LookupsInit
    /\ StartupInit

Next ==
    \/ \E e \in {"crawl", "on_demand", "reeval"} : Start(e)
    \/ \E id \in Ids, f \in FollowerValues, t \in TweetCounts : CrawlUser(id, f, t)
    \/ \E id \in Ids, f \in FollowerValues, t \in TweetCounts : OnDemandUser(id, f, t)
    \/ \E fresh \in {Failed, 0} : ReevalSkip(fresh)
    \/ \E f \in FollowerValues, t \in TweetCounts : ReevalUser(f, t)
    \/ \E n \in 0..FetchLimit : FetchUserTweets(n)
    \/ \E result \in Results(cur.recent) : ClassifyAndSave(result)
    \/ Pace
    \/ Exit
    \/ Crash
    \/ \E m \in [Ids -> {Failed} \cup FollowerValues] : reclassify_large_accounts(m)
    \/ \E recent \in [Ids -> 0..MaxRecent], m \in [Ids -> {Failed} \cup FollowerValues] :
          purge_irrelevant_accounts(recent, m)
    \/ \E d \in Jumps : Advance(d)

Spec == Init /\ [][Next]_vars

\* ---------------------------------------- the content gate, taken alone
\* A classifier process that has fetched n texts for a user who passed the
\* metric gate; the user was unseen, relevant or irrelevant before.
InitClassify ==
    /\ now = 0
    /\ advances = 0
    /\ ops = 1
    /\ pc = "classify"
    /\ entry = "on_demand"
    /\ irrelevants_dict = <<>>
    /\ pos = 1
    /\ results = NoResults
    /\ loaded_at = 0
    /\ \E id \in Ids, n \in 1..tweets_per_user :
          cur = [NoCur EXCEPT !.user = UserData(id, max_followers - 1, min_tweets + 1),
                              !.fetched = TRUE, !.recent = n]
    /\ \E before \in {"unseen", "relevant", "irrelevant"} :
          /\ relevant_accounts =
                IF before = "relevant" THEN <<Stored(cur.user, 0, FALSE)>> ELSE <<>>
          /\ irrelevant_accounts =
                IF before = "irrelevant" THEN <<Stored(cur.user, 0, FALSE)>> ELSE <<>>
    /\ relevant_file = relevant_accounts
    /\ irrelevant_file = irrelevant_accounts
    /\ fresh_data = "none"
    /\ ClientInit
    /\ TweetsInit
    /\ LookupsInit
    /\ StartupInit

NextClassify ==
    \/ \E result \in Results(cur.recent) : ClassifyAndSave(result)
    \/ Pace

SpecClassify == InitClassify /\ [][NextClassify]_vars

\* ------------------------------------------- the HTTP client of run()
\* AccountClassifier.run() at the grain of one HTTP attempt: the keyword
\* loop, fetch_recent_tweets, the loop over users_map, and fetch_user_tweets
\* inside process_user.  pc = "idle" is the loop over users_map between two
\* users.  The code puts no bound on len(data), so the size of a response is
\* an input as large as the monthly cap.

\* One attempt gets a response with a status (200, 429, or 500 for every
\* other error status), or session.get raises a ClientError and there is
\* none (Failed).
\* the x-rate-limit-reset header: not sent, sent empty, or an epoch time
NoHeader == [kind |-> "absent", value |-> 0]

EmptyHeader == [kind |-> "empty", value |-> 0]

ResetHeaders ==
    {NoHeader, EmptyHeader} \cup
    {[kind |-> "int", value |-> CurrentTime + d] : d \in ResetDeltas}

NoResponse == [status |-> 0, reset |-> NoHeader, at |-> 0]

\* len(data) of a successful response
Sizes == {0, 1, post_cap_monthly - 1}

\* what one attempt can meet: a 429 with a reset header, another error
\* status or a ClientError, or a page of size tweets with user among
\* includes.users (NoUser when none) and more pages to come or not
Answer(status, reset, size, user, more) ==
    [status |-> status, reset |-> reset, size |-> size, user |-> user, more |-> more]

RateLimited == {Answer(429, reset, 0, NoUser, FALSE) : reset \in ResetHeaders}

\* the 429 of a run: its reset header names a time 30 seconds ahead
RateLimitedRun ==
    {Answer(429, [kind |-> "int", value |-> CurrentTime + 30], 0, NoUser, FALSE)}

\* mutant of PageLimit: the loop over pages goes on past max_pages
NoPageLimit == max_pages + 2

\* range(self.max_pages)
PageLimit == max_pages

Errors == {Answer(status, NoHeader, 0, NoUser, FALSE) : status \in {500, Failed}}

Pages ==
    {Answer(200, NoHeader, size, user, more) :
        size \in Sizes, more \in BOOLEAN,
        user \in {NoUser} \cup {UserData(id, f, t) :
                     id \in Ids, f \in FollowerValues, t \in TweetCounts}}

UserPages == {Answer(200, NoHeader, size, NoUser, FALSE) : size \in Sizes}

Max(a, b) == IF a >= b THEN a ELSE b

Min(a, b) == IF a <= b THEN a ELSE b

\* the mutant of WaitTime without the cap
WaitTimeUncapped(reset, current_time) ==
    LET given == IF reset.kind = "absent" THEN [kind |-> "int", value |-> 0]
                 ELSE reset
    IN  IF given.kind # "empty" THEN Max(given.value - current_time, 1)
        ELSE default_wait

\* handle_rate_limit's wait_time: response.headers.get('x-rate-limit-reset',
\* '0') gives the text '0' for a header that was not sent, and a text is
\* false only when it is empty
WaitTime(reset, current_time) ==
    LET given == IF reset.kind = "absent" THEN [kind |-> "int", value |-> 0]
                 ELSE reset
        wait == IF given.kind # "empty" THEN Max(given.value - current_time, 1)
                ELSE default_wait
    IN  Min(wait, max_wait)

\* handle_rate_limit's return value: sleep and retry
handle_rate_limit(status, retries) == status = 429 /\ retries < max_retries

\* the mutant of CapReached that never raises
CapNeverReached(used) == FALSE

\* update_usage_metrics raises
CapReached(used) == used >= post_cap_monthly

\* for keyword in self.keywords: fetch_recent_tweets starts
BeginKeyword ==
    /\ pc = "keyword"
    /\ keyword <= Len(keywords)
    /\ pc' = "search"
    /\ page' = 0
    /\ users_map' = <<>>
    /\ tweets_found' = FALSE
    /\ retry_count' = 0
    /\ failures' = 0
    /\ wait_time' = 0
    /\ response' = NoResponse
    /\ UNCHANGED <<now, advances, ops, stores, entry, irrelevants_dict, pos,
                   fresh_data, cur, results, loaded_at>>
    /\ UNCHANGED <<keyword, post_cap_used, tweet_store, lookups, startup>>

\* run() returns
EndRun ==
    /\ pc = "keyword"
    /\ keyword > Len(keywords)
    /\ pc' = "done"
    /\ UNCHANGED <<now, advances, ops, stores, entry, irrelevants_dict, pos,
                   fresh_data, cur, results, loaded_at>>
    /\ UNCHANGED others

\* fetch_recent_tweets returns to run(): without tweets run() goes on to the
\* next keyword, with tweets it enters the loop over users_map
SearchReturns(found, users) ==
    IF found
    THEN /\ pc' = "idle"
         /\ users_map' = users
         /\ keyword' = keyword
    ELSE /\ pc' = "keyword"
         /\ users_map' = <<>>
         /\ keyword' = keyword + 1

\* one attempt of fetch_recent_tweets: a page with size tweets, user among
\* includes.users (NoUser when none) and more pages to come or not
SearchAttempt(status, reset, size, user, more) ==
    /\ pc = "search"
    /\ response' = [status |-> status, reset |-> reset, at |-> CurrentTime]
    /\ IF handle_rate_limit(status, retry_count)
       THEN /\ wait_time' = WaitTime(reset, CurrentTime)
            /\ retry_count' = retry_count + 1
            /\ failures' = failures + 1
            /\ UNCHANGED <<pc, page, users_map, tweets_found, keyword, post_cap_used>>
       ELSE IF status # 200
       THEN \* raise_for_status or session.get raised a ClientError
            /\ failures' = failures + 1
            /\ IF retry_count >= max_retries
               THEN /\ SearchReturns(tweets_found, users_map)
                    /\ wait_time' = 0
                    /\ UNCHANGED retry_count
               ELSE /\ retry_count' = retry_count + 1
                    /\ wait_time' = page_retry_delay
                    /\ UNCHANGED <<pc, users_map, keyword>>
            /\ UNCHANGED <<page, tweets_found, post_cap_used>>
       ELSE /\ post_cap_used' = post_cap_used + size
            /\ wait_time' = 0
            /\ UNCHANGED <<retry_count, failures>>
            /\ IF size > 0 /\ CapReached(post_cap_used')
               THEN /\ pc' = "raised"
                    /\ UNCHANGED <<page, users_map, tweets_found, keyword>>
               ELSE LET found == tweets_found \/ size > 0
                        users == IF user # NoUser /\ PreFilter(user)
                                 THEN DictSet(users_map, user) ELSE users_map
                    IN  /\ tweets_found' = found
                        /\ IF ~more \/ page + 1 >= PageLimit
                           THEN /\ SearchReturns(found, users)
                                /\ UNCHANGED page
                           ELSE /\ page' = page + 1
                                /\ users_map' = users
                                /\ UNCHANGED <<pc, keyword>>
    /\ UNCHANGED <<now, advances, ops, stores, entry, irrelevants_dict, pos,
                   fresh_data, cur, results, loaded_at>>
    /\ UNCHANGED <<tweet_store, lookups, startup>>

\* for user_data in users_map.values(): process_user(user_data)
NextUser ==
    /\ pc = "idle"
    /\ entry = "run"
    /\ users_map # <<>>
    /\ process_user(Head(users_map))
    /\ users_map' = Tail(users_map)
    /\ retry_count' = 0
    /\ failures' = 0
    /\ wait_time' = 0
    /\ response' = NoResponse
    /\ UNCHANGED <<now, advances, entry, irrelevants_dict, pos, fresh_data, loaded_at>>
    /\ UNCHANGED <<keyword, page, tweets_found, post_cap_used, tweet_store, lookups, startup>>

\* the loop over users_map is over: on to the next keyword
EndKeyword ==
    /\ pc = "idle"
    /\ entry = "run"
    /\ users_map = <<>>
    /\ pc' = "keyword"
    /\ keyword' = keyword + 1
    /\ UNCHANGED <<now, advances, ops, stores, entry, irrelevants_dict, pos,
                   fresh_data, cur, results, loaded_at>>
    /\ UNCHANGED <<page, users_map, tweets_found, retry_count, failures, wait_time,
                   response, post_cap_used, tweet_store, lookups, startup>>

\* fetch_user_tweets comes back to process_user with n texts: the activity
\* gate
UserTweetsReturn(n) ==
    IF NoRecentTweets(n)
    THEN /\ cur' = [cur EXCEPT !.fetched = TRUE, !.decision = "skip"]
         /\ pc' = "pace"
    ELSE /\ cur' = [cur EXCEPT !.fetched = TRUE, !.recent = n]
         /\ pc' = "classify"

\* one attempt of fetch_user_tweets, with size tweets in a successful
\* response
UserAttempt(status, reset, size) ==
    /\ pc = "fetch"
    /\ retry_count < max_retries
    /\ response' = [status |-> status, reset |-> reset, at |-> CurrentTime]
    /\ IF status # 200
       THEN /\ failures' = failures + 1
            /\ retry_count' = retry_count + 1
            /\ wait_time' =
                  IF handle_rate_limit(status, retry_count)
                  THEN WaitTime(reset, CurrentTime)
                  ELSE IF retry_count' < max_retries
                  THEN base_delay * 2 ^ retry_count'
                  ELSE 0
            /\ IF retry_count' < max_retries
               THEN UNCHANGED <<pc, cur>>
               ELSE UserTweetsReturn(0)
            /\ UNCHANGED post_cap_used
       ELSE /\ post_cap_used' = post_cap_used + size
            /\ wait_time' = 0
            /\ UNCHANGED <<retry_count, failures>>
            /\ IF size > 0 /\ CapReached(post_cap_used')
               THEN /\ pc' = "raised"
                    /\ UNCHANGED cur
               ELSE UserTweetsReturn(Min(size, FetchLimit))
    /\ UNCHANGED <<now, advances, ops, stores, entry, irrelevants_dict, pos,
                   fresh_data, results, loaded_at>>
    /\ UNCHANGED <<keyword, page, users_map, tweets_found, tweet_store, lookups, startup>>

\* one attempt of fetch_recent_tweets within a run: within the model's
\* bound a response names no next page after MaxPages pages
SearchAttemptOfRun(a) ==
    /\ a.more => page + 1 < MaxPages
    /\ SearchAttempt(a.status, a.reset, a.size, a.user, a.more)

\* a classifier that has loaded its files, in which each account is unseen,
\* relevant or irrelevant, enters run()
InitClient ==
    /\ now = 0
    /\ advances = 0
    /\ ops = 0
    /\ pc = "keyword"
    /\ entry = "run"
    /\ irrelevants_dict = <<>>
    /\ pos = 1
    /\ fresh_data = "none"
    /\ cur = NoCur
    /\ results = NoResults
    /\ loaded_at = 0
    /\ \E before \in [Ids -> {"unseen", "relevant", "irrelevant"}] :
          /\ relevant_accounts =
                SelectSeq([i \in Ids |-> Stored(UserData(i, 0, 0), 0, FALSE)],
                          LAMBDA r : before[r.id] = "relevant")
          /\ irrelevant_accounts =
                SelectSeq([i \in Ids |-> Stored(UserData(i, 0, 0), 0, FALSE)],
                          LAMBDA r : before[r.id] = "irrelevant")
    /\ relevant_file = relevant_accounts
    /\ irrelevant_file = irrelevant_accounts
    /\ ClientInit
    /\ TweetsInit
    /\ LookupsInit
    /\ StartupInit

NextClient ==
    \/ BeginKeyword
    \/ EndRun
    \/ \E a \in RateLimitedRun \cup Errors \cup Pages : SearchAttemptOfRun(a)
    \/ NextUser
    \/ EndKeyword
    \/ \E a \in RateLimitedRun \cup Errors \cup UserPages :
          UserAttempt(a.status, a.reset, a.size)
    \/ \E result \in Results(cur.recent) : ClassifyAndSave(result)
    \/ Pace

SpecClient == InitClient /\ [][NextClient]_vars

\* ------------------------------------- one call of fetch_user_tweets
\* process_user has passed the metric gate for a user and calls
\* fetch_user_tweets, which meets every kind of reset header
InitFetch ==
    /\ now = 0
    /\ advances = 0
    /\ ops = 1
    /\ pc = "fetch"
    /\ entry = "run"
    /\ irrelevants_dict = <<>>
    /\ pos = 1
    /\ fresh_data = "none"
    /\ results = NoResults
    /\ loaded_at = 0
    /\ \E id \in Ids :
          cur = [NoCur EXCEPT !.user = UserData(id, max_followers - 1, min_tweets + 1)]
    /\ relevant_accounts = <<>>
    /\ irrelevant_accounts = <<>>
    /\ relevant_file = <<>>
    /\ irrelevant_file = <<>>
    /\ ClientInit
    /\ TweetsInit
    /\ LookupsInit
    /\ StartupInit

NextFetch ==
    \/ \E a \in RateLimited \cup Errors \cup UserPages :
          UserAttempt(a.status, a.reset, a.size)
    \/ \E result \in Results(cur.recent) : ClassifyAndSave(result)
    \/ Pace

SpecFetch == InitFetch /\ [][NextFetch]_vars

\* ------------- one call of fetch_recent_tweets or of fetch_user_tweets
\* run() has called fetch_recent_tweets for a keyword, or process_user has
\* called fetch_user_tweets for a user
InitCalls ==
    /\ now = 0
    /\ advances = 0
    /\ ops = 1
    /\ pc \in {"search", "fetch"}
    /\ entry = "run"
    /\ irrelevants_dict = <<>>
    /\ pos = 1
    /\ fresh_data = "none"
    /\ results = NoResults
    /\ loaded_at = 0
    /\ cur = IF pc = "fetch"
             THEN [NoCur EXCEPT !.user = UserData(1, max_followers - 1, min_tweets + 1)]
             ELSE NoCur
    /\ relevant_accounts = <<>>
    /\ irrelevant_accounts = <<>>
    /\ relevant_file = <<>>
    /\ irrelevant_file = <<>>
    /\ ClientInit
    /\ TweetsInit
    /\ LookupsInit
    /\ StartupInit

\* the call meets any sequence of responses, each page naming a next page
\* or not, until it returns or raises
NextCalls ==
    \/ \E a \in RateLimited \cup Errors \cup Pages :
          SearchAttempt(a.status, a.reset, a.size, a.user, a.more)
    \/ \E a \in RateLimited \cup Errors \cup UserPages :
          UserAttempt(a.status, a.reset, a.size)

\* every sleep of the call ends and every request gets its response or its
\* exception: a call that can take a step takes one
SpecCalls == InitCalls /\ [][NextCalls]_vars /\ WF_vars(NextCalls)

\* ------------------------------------------------ fetch_tweets.py
\* The tweet store: FetchTweets.all_tweets and data/all_tweets.json, both a
\* dict from the account to the list of its posts.  The dict is keyed by the
\* username of the account's record; the model takes the username of an
\* account as fixed and keys the dict by the account id.

\* created_at of the post with this id
PostTime(i) == i

Post(i) == [id |-> i, created_at |-> PostTime(i)]

\* the batches fetch_user_tweets can return: [] on an error, else data of
\* the response.  The code does not check created_at against start_time or
\* the ids against each other, so any list of posts is a batch.
RECURSIVE SeqsUpTo(_, _)
SeqsUpTo(S, n) ==
    IF n = 0 THEN {<<>>}
    ELSE LET shorter == SeqsUpTo(S, n - 1) IN
         shorter \cup {Append(b, x) : b \in shorter, x \in S}

Batches == SeqsUpTo({Post(i) : i \in 1..MaxPosts}, MaxBatch)

\* self.all_tweets.get(username, [])
PostsOf(d, id) == IF Has(d, id) THEN Get(d, id).posts ELSE <<>>

PostIds(posts) == {posts[i].id : i \in DOMAIN posts}

RECURSIVE MaxTime(_)
MaxTime(posts) ==
    IF Len(posts) = 1 THEN posts[1].created_at
    ELSE LET rest == MaxTime(Tail(posts)) IN
         IF posts[1].created_at >= rest THEN posts[1].created_at ELSE rest

RECURSIVE MinTime(_)
MinTime(posts) ==
    IF Len(posts) = 1 THEN posts[1].created_at
    ELSE LET rest == MinTime(Tail(posts)) IN
         IF posts[1].created_at <= rest THEN posts[1].created_at ELSE rest

\* the mutant of get_latest_collected_time that takes the earliest post
get_earliest_collected_time(d, id) ==
    IF ~Has(d, id) \/ Get(d, id).posts = <<>> THEN NoTime
    ELSE MinTime(Get(d, id).posts)

\* get_latest_collected_time(username), None as NoTime
get_latest_collected_time(d, id) ==
    IF ~Has(d, id) \/ Get(d, id).posts = <<>> THEN NoTime
    ELSE MaxTime(Get(d, id).posts)

\* the mutant of NewTweets that keeps every fetched post
AllFetched(existing, batch) == batch

\* [tweet for tweet in tweets if tweet["id"] not in existing_ids]
NewTweets(existing, batch) ==
    SelectSeq(batch, LAMBDA tweet : tweet.id \notin PostIds(existing))

\* the merge loop of save_all_tweets over self.all_tweets.items()
RECURSIVE SaveLoop(_, _)
SaveLoop(existing_data, todo) ==
    IF todo = <<>> THEN existing_data
    ELSE LET username == Head(todo).id
             posts == Head(todo).posts
         IN  IF ~Has(existing_data, username)
             THEN SaveLoop(Append(existing_data, Head(todo)), Tail(todo))
             ELSE LET old == Get(existing_data, username).posts IN
                  SaveLoop(DictSet(existing_data,
                                   [id |-> username,
                                    posts |-> old \o NewTweets(old, posts)]),
                           Tail(todo))

\* the mutant of Cleaned that drops nothing
Uncleaned(d) == d

\* {user: tweets for user, tweets in ... if tweets}
Cleaned(d) == SelectSeq(d, LAMBDA r : r.posts # <<>>)

\* what save_all_tweets writes
save_all_tweets(existing_data, tweets_by_user) ==
    Cleaned(SaveLoop(existing_data, tweets_by_user))

\* clean_all_tweets, then FetchTweets.__aenter__ with load_all_tweets
StartFetcher ==
    /\ fetcher = "off"
    /\ fetcher' = "idle"
    /\ tweets_file' = Cleaned(tweets_file)
    /\ all_tweets' = tweets_file'
    /\ UNCHANGED <<user_id, fetched_tweets, cursor_used, last_merged>>
    /\ UNCHANGED <<lifecycle, client, lookups, startup>>

\* process_account up to the return of fetch_user_tweets: the cursor is read
\* and the batch comes back
FetchBatch(id, batch) ==
    /\ fetcher = "idle"
    /\ Has(relevant_file, id)
    /\ fetcher' = "merge"
    /\ user_id' = id
    /\ fetched_tweets' = batch
    /\ cursor_used' = [cursor_used EXCEPT ![id] = get_latest_collected_time(all_tweets, id)]
    /\ UNCHANGED <<all_tweets, tweets_file, last_merged>>
    /\ UNCHANGED <<lifecycle, client, lookups, startup>>

\* mutant of Merged: the new posts are put in front
MergedNewFirst(existing, batch) == NewTweets(existing, batch) \o existing

\* self.all_tweets.get(username, []) + new_tweets
Merged(existing, batch) == existing \o NewTweets(existing, batch)

\* process_account from "if tweets:" on: the merge and the save
MergeBatch ==
    /\ fetcher = "merge"
    /\ fetcher' = "idle"
    /\ user_id' = 0
    /\ fetched_tweets' = <<>>
    /\ IF fetched_tweets # <<>>
       THEN LET existing == PostsOf(all_tweets, user_id) IN
            /\ all_tweets' =
                  DictSet(all_tweets,
                          [id |-> user_id,
                           posts |-> Merged(existing, fetched_tweets)])
            /\ tweets_file' = save_all_tweets(tweets_file, all_tweets')
            /\ last_merged' =
                  [user_id |-> user_id, tweets |-> fetched_tweets,
                   times |-> IF /\ last_merged.user_id = user_id
                                /\ last_merged.tweets = fetched_tweets
                             THEN 2 ELSE 1]
       ELSE UNCHANGED <<all_tweets, tweets_file, last_merged>>
    /\ UNCHANGED cursor_used
    /\ UNCHANGED <<lifecycle, client, lookups, startup>>

\* the process is stopped (crawl_forever never returns of itself)
StopFetcher ==
    /\ fetcher \in {"idle", "merge"}
    /\ fetcher' = "off"
    /\ all_tweets' = <<>>
    /\ user_id' = 0
    /\ fetched_tweets' = <<>>
    /\ UNCHANGED <<tweets_file, cursor_used, last_merged>>
    /\ UNCHANGED <<lifecycle, client, lookups, startup>>

\* every account is relevant, and no post has been stored yet
InitTweets ==
    /\ now = 0
    /\ advances = 0
    /\ ops = 0
    /\ pc = "off"
    /\ entry = "none"
    /\ irrelevants_dict = <<>>
    /\ pos = 1
    /\ fresh_data = "none"
    /\ cur = NoCur
    /\ results = NoResults
    /\ loaded_at = 0
    /\ relevant_accounts = <<>>
    /\ irrelevant_accounts = <<>>
    /\ relevant_file = [i \in Ids |-> Stored(UserData(i, 0, 0), 0, FALSE)]
    /\ irrelevant_file = <<>>
    /\ ClientInit
    /\ TweetsInit
    /\ LookupsInit
    /\ StartupInit

NextTweets ==
    \/ StartFetcher
    \/ \E id \in Ids, batch \in Batches : FetchBatch(id, batch)
    \/ MergeBatch
    \/ StopFetcher

SpecTweets == InitTweets /\ [][NextTweets]_vars

\* texts of all_tweets.json that hold accounts with an empty list, as a
\* version of the script without the cleanup, or a hand, could leave them
DirtyFiles ==
    {<<[id |-> 1, posts |-> <<>>]>>,
     <<[id |-> 1, posts |-> <<>>], [id |-> 2, posts |-> <<Post(1)>>]>>,
     <<[id |-> 2, posts |-> <<Post(1)>>], [id |-> 1, posts |-> <<>>]>>}

\* fetch_tweets.py is started on such a file
InitCleanup ==
    /\ now = 0
    /\ advances = 0
    /\ ops = 0
    /\ pc = "off"
    /\ entry = "none"
    /\ irrelevants_dict = <<>>
    /\ pos = 1
    /\ fresh_data = "none"
    /\ cur = NoCur
    /\ results = NoResults
    /\ loaded_at = 0
    /\ relevant_accounts = <<>>
    /\ irrelevant_accounts = <<>>
    /\ relevant_file = [i \in Ids |-> Stored(UserData(i, 0, 0), 0, FALSE)]
    /\ irrelevant_file = <<>>
    /\ ClientInit
    /\ fetcher = "off"
    /\ all_tweets = <<>>
    /\ tweets_file \in DirtyFiles
    /\ user_id = 0
    /\ fetched_tweets = <<>>
    /\ cursor_used = [i \in Ids |-> NoTime]
    /\ last_merged = [user_id |-> 0, tweets |-> <<>>, times |-> 0]
    /\ LookupsInit
    /\ StartupInit

SpecCleanup == InitCleanup /\ [][NextTweets]_vars

\* ------------------------- reevaluate_relevant_accounts.py, taken alone
\* purge_irrelevant_accounts with what its lookups returned kept: the number
\* of each account's stored posts newer than the cutoff, and each account's
\* freshly fetched followers_count
PurgeRecorded(recent, m) ==
    /\ PurgePass(recent, m)
    /\ recent_posts' = recent
    /\ metrics' = m
    /\ UNCHANGED <<client, tweet_store, startup>>

\* accounts_relevant.json holds every account as save_account wrote it, and
\* accounts_irrelevant.json is empty
InitPurge ==
    /\ now = 0
    /\ advances = 0
    /\ ops = 0
    /\ pc = "off"
    /\ entry = "none"
    /\ irrelevants_dict = <<>>
    /\ pos = 1
    /\ fresh_data = "none"
    /\ cur = NoCur
    /\ results = NoResults
    /\ loaded_at = 0
    /\ relevant_accounts = <<>>
    /\ irrelevant_accounts = <<>>
    /\ relevant_file = [i \in Ids |-> Stored(UserData(i, 0, 0), 0, FALSE)]
    /\ irrelevant_file = <<>>
    /\ ClientInit
    /\ TweetsInit
    /\ LookupsInit
    /\ StartupInit

NextPurge ==
    \/ \E recent \in [Ids -> 0..MaxRecent], m \in [Ids -> {Failed} \cup FollowerValues] :
          PurgeRecorded(recent, m)
    \/ \E d \in Jumps : Advance(d)

SpecPurge == InitPurge /\ [][NextPurge]_vars

\* ------------------------------- reclassify_relevant.py, its lookups kept
\* a run of reclassify_large_accounts that records what fetch_user_metrics
\* returned for each account
ReclassifyRecorded(m) ==
    /\ ReclassifyPass(m)
    /\ metrics' = m
    /\ UNCHANGED <<recent_posts, client, tweet_store>>

\* on-demand classifications write the two files, and the script runs
\* between them as time passes
NextReclassify ==
    \/ Start("on_demand")
    \/ \E id \in Ids, f \in FollowerValues, t \in TweetCounts : OnDemandUser(id, f, t)
    \/ \E n \in 0..FetchLimit : FetchUserTweets(n)
    \/ \E result \in Results(cur.recent) : ClassifyAndSave(result)
    \/ Pace
    \/ Exit
    \/ \E m \in [Ids -> {Failed} \cup FollowerValues] : ReclassifyRecorded(m)
    \/ \E d \in Jumps : Advance(d)

SpecReclassify == Init /\ [][NextReclassify]_vars

\* ------------------------------------------ the decay pass, taken alone
\* accounts_irrelevant.json holds unflagged records whose classified_at is
\* missing, empty, malformed or the time 0, as a hand or another program
\* could leave them; the classifier is started at different times.
StampKinds == {NoTime, EmptyTime, MalformedTime, 0}

OddRecord(id, stamp) ==
    [id |-> id, classified_at |-> stamp, too_many_followers |-> FALSE,
     last_checked_at |-> NoTime]

InitDecay ==
    /\ now = 0
    /\ advances = 0
    /\ ops = 0
    /\ pc = "off"
    /\ entry = "none"
    /\ irrelevants_dict = <<>>
    /\ pos = 1
    /\ fresh_data = "none"
    /\ cur = NoCur
    /\ results = NoResults
    /\ loaded_at = 0
    /\ relevant_accounts = <<>>
    /\ irrelevant_accounts = <<>>
    /\ relevant_file = <<>>
    /\ \E first \in StampKinds, second \in StampKinds :
         irrelevant_file = <<OddRecord(1, first), OddRecord(2, second)>>
    /\ ClientInit
    /\ TweetsInit
    /\ LookupsInit
    /\ StartupInit

NextDecay ==
    \/ \E e \in {"crawl", "on_demand", "reeval"} : Start(e)
    \/ Exit
    \/ \E d \in Jumps : Advance(d)

SpecDecay == InitDecay /\ [][NextDecay]_vars

\* ------------------------------------- the entry points on damaged files
\* An entry point built on AccountClassifier is started while an account
\* file does not parse.  load_existing_accounts raises out of __init__, and
\* the process ends; reevaluate_irrelevant, which reads the irrelevant file
\* itself first, returns when that read fails.
LoadFails(e) ==
    /\ pc = "off"
    /\ ops < MaxOps
    /\ IF e = "reeval"
       THEN \/ "irrelevant" \in corrupt
            \/ FromList(irrelevant_file) # <<>> /\ "relevant" \in corrupt
       ELSE corrupt # {}
    /\ ops' = ops + 1
    /\ UNCHANGED <<now, advances, stores, pc, entry, irrelevants_dict, pos, fresh_data,
                   cur, results, loaded_at>>
    /\ UNCHANGED others

\* purge_irrelevant_accounts is started while an account file does not
\* parse: load_json raises and the script ends
PurgeFails ==
    /\ Quiet
    /\ ops < MaxOps
    /\ corrupt # {}
    /\ ops' = ops + 1
    /\ UNCHANGED <<now, advances, stores, pc, entry, irrelevants_dict, pos, fresh_data,
                   cur, results, loaded_at>>
    /\ UNCHANGED others

\* what the two files held when they were damaged
DamagedRelevant ==
    {<<>>,
     <<Stored(UserData(1, 0, 0), 0, FALSE)>>,
     <<Stored(UserData(1, 0, 0), 0, FALSE), Stored(UserData(2, 0, 0), 0, FALSE)>>}

DamagedIrrelevant ==
    {<<>>,
     <<Stored(UserData(2, 0, 0), 0, TRUE)>>,
     <<Stored(UserData(1, 0, 0), 0, FALSE), Stored(UserData(2, 0, 0), 0, TRUE)>>}

InitCorrupt ==
    /\ now = 0
    /\ advances = 0
    /\ ops = 0
    /\ pc = "off"
    /\ entry = "none"
    /\ irrelevants_dict = <<>>
    /\ pos = 1
    /\ fresh_data = "none"
    /\ cur = NoCur
    /\ results = NoResults
    /\ loaded_at = 0
    /\ relevant_accounts = <<>>
    /\ irrelevant_accounts = <<>>
    /\ relevant_file \in DamagedRelevant
    /\ irrelevant_file \in DamagedIrrelevant
    /\ ClientInit
    /\ TweetsInit
    /\ LookupsInit
    /\ corrupt \in SUBSET {"relevant", "irrelevant"} \ {{}}
    /\ GuardInit

NextCorrupt ==
    \/ \E e \in {"crawl", "on_demand", "reeval"} : LoadFails(e)
    \/ \E m \in [Ids -> {Failed} \cup FollowerValues] : reclassify_large_accounts(m)
    \/ PurgeFails

SpecCorrupt == InitCorrupt /\ [][NextCorrupt]_vars

\* ------------------------------------- the single-instance guard of main
\* Two launches of fetch_accounts.py, each step one file-system or process
\* call of check_existing_process.  open(lock_file, "w") and the write of
\* the pid are taken as one step.

\* os.kill(pid, 0) succeeds: a process with this pid is running
Alive(pid) == \E p \in Procs : instance[p].pid = pid /\ instance[p].pc # "off"

\* what is left alone by every step of the guard
GuardFrame == UNCHANGED <<lifecycle, client, tweet_store, lookups, corrupt>>

\* asyncio.run(main()) in a new process
Launch(p) ==
    /\ instance[p].pc = "off"
    /\ next_pid <= MaxPids
    /\ instance' = [instance EXCEPT ![p] = [pc |-> "exists", pid |-> next_pid, seen |-> NoLock]]
    /\ next_pid' = next_pid + 1
    /\ UNCHANGED lock_file
    /\ GuardFrame

\* if lock_file.exists():
LockExists(p) ==
    /\ instance[p].pc = "exists"
    /\ instance' = [instance EXCEPT ![p].pc = IF lock_file = NoLock THEN "write" ELSE "read"]
    /\ UNCHANGED <<lock_file, next_pid>>
    /\ GuardFrame

\* pid = int(f.read().strip()); the open raises OSError if the file has
\* gone since exists()
ReadLock(p) ==
    /\ instance[p].pc = "read"
    /\ instance' = [instance EXCEPT ![p].pc = IF lock_file = NoLock THEN "unlink" ELSE "kill",
                                    ![p].seen = lock_file]
    /\ UNCHANGED <<lock_file, next_pid>>
    /\ GuardFrame

\* os.kill(pid, 0); return True, and main's sys.exit(1) before its try
ProbePid(p) ==
    /\ instance[p].pc = "kill"
    /\ instance' = [instance EXCEPT ![p] = IF Alive(instance[p].seen)
                                           THEN NotLaunched
                                           ELSE [@ EXCEPT !.pc = "unlink"]]
    /\ UNCHANGED <<lock_file, next_pid>>
    /\ GuardFrame

\* except (ProcessLookupError, ValueError, OSError): lock_file.unlink(missing_ok=True)
UnlinkLock(p) ==
    /\ instance[p].pc = "unlink"
    /\ lock_file' = NoLock
    /\ instance' = [instance EXCEPT ![p].pc = "write"]
    /\ UNCHANGED next_pid
    /\ GuardFrame

\* f.write(str(os.getpid())); return False, and main goes on to the crawl
WriteLock(p) ==
    /\ instance[p].pc = "write"
    /\ lock_file' = instance[p].pid
    /\ instance' = [instance EXCEPT ![p].pc = "crawl"]
    /\ UNCHANGED next_pid
    /\ GuardFrame

\* main's finally: cleanup_lock(), after the crawl returned or raised
CleanupLock(p) ==
    /\ instance[p].pc = "crawl"
    /\ lock_file' = NoLock
    /\ instance' = [instance EXCEPT ![p] = NotLaunched]
    /\ UNCHANGED next_pid
    /\ GuardFrame

\* the process is killed during the crawl: its lock stays
Killed(p) ==
    /\ instance[p].pc = "crawl"
    /\ instance' = [instance EXCEPT ![p] = NotLaunched]
    /\ UNCHANGED <<lock_file, next_pid>>
    /\ GuardFrame

InitGuard == InitTweets

NextGuard ==
    \E p \in Procs :
        \/ Launch(p)
        \/ LockExists(p)
        \/ ReadLock(p)
        \/ ProbePid(p)
        \/ UnlinkLock(p)
        \/ WriteLock(p)
        \/ CleanupLock(p)
        \/ Killed(p)

SpecGuard == InitGuard /\ [][NextGuard]_vars

\* ------------------------------------------------------------------ claims
\* the id is in the map, with the flag
Flagged(d, id) == Has(d, id) /\ Get(d, id).too_many_followers

\* the step that runs load_existing_accounts
LoadStep == pc = "off" /\ pc' = "idle"

\* the irrelevant file as load_existing_accounts reads it, before the decay
Loaded == FromList(irrelevant_file)

\* C1: no account id is in both the persisted relevant collection and the
\* persisted irrelevant collection.
C1_PersistedMutualExclusion ==
    IdsOf(relevant_file) \cap IdsOf(irrelevant_file) = {}

\* C2: once the persisted irrelevant record of an account carries the sticky
\* flag, every step leaves the flag set, unless the step is a promotion of
\* that account to Relevant by a fresh relevant classification.
C2_FlagStaysUntilPromotion ==
    [][\A id \in Ids :
          Flagged(Loaded, id) =>
              \/ Flagged(Loaded, id)'
              \/ /\ pc = "classify" /\ cur.user.id = id
                 /\ cur'.decision = "relevant"]_vars

\* C3: the decay applied on load retains every irrelevant account whose
\* sticky flag is set, whatever the age of its classified_at.
C3_DecayKeepsFlagged ==
    [][LoadStep =>
          \A i \in DOMAIN Loaded :
              Loaded[i].too_many_followers =>
                  /\ Has(irrelevant_accounts', Loaded[i].id)
                  /\ Get(irrelevant_accounts', Loaded[i].id) = Loaded[i]]_vars

\* C3 witness: a flagged record classified 100 days or more before the load
\* is in the irrelevant map the load built.
C3_Witness ==
    /\ pc = "idle"
    /\ \E i \in DOMAIN irrelevant_accounts :
          /\ irrelevant_accounts[i].too_many_followers
          /\ irrelevant_accounts[i].classified_at + 100 * TicksPerDay <= loaded_at

\* C4: on load, a non-permanent irrelevant account classified 31 or more
\* days ago is dropped, and one classified 29 or fewer days ago is retained.
C4_DecayLaw ==
    [][LoadStep =>
          \A i \in DOMAIN Loaded :
              (~Loaded[i].too_many_followers /\ Loaded[i].classified_at # NoTime) =>
                  /\ now - Loaded[i].classified_at >= 31 * TicksPerDay
                        => ~Has(irrelevant_accounts', Loaded[i].id)
                  /\ now - Loaded[i].classified_at <= 29 * TicksPerDay
                        => Has(irrelevant_accounts', Loaded[i].id)]_vars

\* C4 witness: the load has dropped an unflagged record of the irrelevant
\* file that was classified 31 days or more before it.
C4_Witness ==
    /\ pc = "idle"
    /\ loaded_at = now
    /\ \E i \in DOMAIN Loaded :
          /\ ~Loaded[i].too_many_followers
          /\ Loaded[i].classified_at + 31 * TicksPerDay <= loaded_at
          /\ ~Has(irrelevant_accounts, Loaded[i].id)

\* C5: on load, a non-permanent irrelevant account with a parsable
\* classified_at is dropped if and only if now - classified_at is strictly
\* greater than 30 days; one classified exactly 30 days ago is retained.
C5_DroppedIffOlderThan30Days ==
    [][LoadStep =>
          \A i \in DOMAIN Loaded :
              (~Loaded[i].too_many_followers /\ Loaded[i].classified_at # NoTime) =>
                  (~Has(irrelevant_accounts', Loaded[i].id)
                      <=> now - Loaded[i].classified_at > 30 * TicksPerDay)]_vars

\* C6: while process_user works on an account with followers_count >=
\* max_followers or tweet count <= min_tweets, it has saved the account as
\* Irrelevant and is pacing: it has fetched no posts and has not called the
\* classifier.
C6_MetricGateDominates ==
    (/\ pc \in {"fetch", "classify", "pace"}
     /\ \/ cur.user.followers_count >= 2000
        \/ cur.user.tweet_count <= 300)
        => /\ pc = "pace"
           /\ cur.decision = "metric"
           /\ ~cur.fetched
           /\ ~cur.classified
           /\ Has(irrelevant_accounts, cur.user.id)
           /\ ~Has(relevant_accounts, cur.user.id)

\* C6 witness: an account with few followers and too few posts has been
\* stopped at the metric gate.
C6_Witness ==
    /\ pc = "pace"
    /\ cur.decision = "metric"
    /\ cur.user.followers_count < 2000
    /\ cur.user.tweet_count <= 300
    /\ Has(irrelevant_file, cur.user.id)

\* C7: the step that ends the post fetch of an account that passed the
\* metric gate (the process not being killed in it) goes on to the classifier
\* when posts came back and, when none did, ends process_user leaving both
\* maps and both files as they were.
C7_ActivityGateWritesNothing ==
    [][(pc = "fetch" /\ pc' # "off") =>
          IF cur'.recent = 0
          THEN /\ pc' = "pace"
               /\ cur'.decision = "skip"
               /\ ~cur'.classified
               /\ UNCHANGED stores
          ELSE pc' = "classify"]_vars

\* C7 witness: a relevant account was re-checked, no post came back, and it
\* is still in the relevant map and file.
C7_Witness ==
    /\ pc = "pace"
    /\ cur.decision = "skip"
    /\ Has(relevant_accounts, cur.user.id)
    /\ Has(relevant_file, cur.user.id)

\* the number of texts of the classifier's answer with a score above 0.80
AboveThreshold == Cardinality({i \in DOMAIN results.scores : results.scores[i] > 80})

\* C8: for n >= 1 fetched posts of which r scored above the threshold, the
\* account is classified Relevant iff r/n >= 0.4 (2 of 5 is Relevant, 1 of 5
\* is Irrelevant).
C8_RatioRule ==
    (pc = "pace" /\ cur.classified /\ ~results.raised) =>
        /\ cur.decision = "relevant" <=> AboveThreshold * 10 >= Len(results.scores) * 4
        /\ cur.decision \in {"relevant", "irrelevant"}
        /\ cur.decision = "relevant" <=> Has(relevant_accounts, cur.user.id)
        /\ cur.decision = "irrelevant" <=> Has(irrelevant_accounts, cur.user.id)

\* C8 witness: exactly 2 of 5 posts scored above the threshold and the
\* account is in the relevant map.
C8_Witness ==
    /\ pc = "pace"
    /\ Len(results.scores) = 5
    /\ AboveThreshold = 2
    /\ Has(relevant_accounts, cur.user.id)

C10_FilesEqualMaps ==
    (pc = "pace" /\ cur.decision \in {"metric", "relevant", "irrelevant"}) =>
        /\ FromList(relevant_file) = relevant_accounts
        /\ FromList(irrelevant_file) = irrelevant_accounts

\* C11: when a 429 carries a reset header naming an epoch time, the wait
\* before the retry is reset - now if that is between 1 and 900 seconds, 1
\* second if reset <= now, and never more than 900 seconds.
C11_WaitUntilReset ==
    (response.status = 429 /\ response.reset.kind = "int" /\ wait_time > 0) =>
        LET delta == response.reset.value - response.at IN
            /\ (delta >= 1 /\ delta <= 900) => wait_time = delta
            /\ delta <= 0 => wait_time = 1
            /\ wait_time <= 900

\* C11 witness: a 429 with reset = now + 30 was answered by a wait of 30
\* seconds and a retry.
C11_Witness ==
    /\ response.status = 429
    /\ response.reset.kind = "int"
    /\ response.reset.value = response.at + 30
    /\ wait_time = 30
    /\ retry_count >= 1

\* C12: when a 429 carries no reset header, the wait before the retry is the
\* default of 60 seconds.
C12_DefaultWait ==
    (response.status = 429 /\ response.reset.kind = "absent" /\ wait_time > 0) =>
        wait_time = 60

\* C13: within one call of fetch_user_tweets or of fetch_recent_tweets, at
\* most max_retries = 3 attempts end in a 429 or a transport failure.
C13_RetryBudget == failures <= 3

\* C14: the failed attempt that makes a fetch give up ends the call without
\* failing the run.  In fetch_user_tweets it ends process_user as an
\* activity-gate skip, with no classification written and both maps and files
\* as they were; in fetch_recent_tweets it hands run() what was gathered so
\* far, and run() goes on to the users gathered or to the next keyword.
C14_GiveUpIsNotFatal ==
    [][/\ (pc = "fetch" /\ response'.status # 200 /\ pc' # "fetch") =>
              /\ pc' = "pace"
              /\ cur'.decision = "skip"
              /\ ~cur'.classified
              /\ cur'.user = cur.user
              /\ UNCHANGED stores
       /\ (pc = "search" /\ response'.status # 200 /\ pc' # "search") =>
              /\ UNCHANGED stores
              /\ IF tweets_found
                 THEN pc' = "idle" /\ users_map' = users_map /\ keyword' = keyword
                 ELSE pc' = "keyword" /\ keyword' = keyword + 1]_vars

\* C14 witness: fetch_user_tweets gave up on a relevant account after three
\* failed attempts, and the account is still in the relevant map and file.
C14_Witness ==
    /\ pc = "pace"
    /\ cur.decision = "skip"
    /\ failures = 3
    /\ response.status # 200
    /\ Has(relevant_accounts, cur.user.id)
    /\ Has(relevant_file, cur.user.id)

\* C15: the step that brings post_cap_used to post_cap_monthly or above ends
\* the run with a failure, and a run that has failed takes no further step:
\* no fetch, no classification.
C15_CapStopsRun ==
    [][/\ post_cap_used' >= 15000 => pc' = "raised"
       /\ pc # "raised"]_vars

\* C15 witness: the run has failed at the cap with users of the keyword not
\* yet processed.
C15_Witness ==
    /\ pc = "raised"
    /\ post_cap_used >= 15000
    /\ users_map # <<>>


\* how many times the post id is in the list
Count(posts, p) == Cardinality({i \in DOMAIN posts : posts[i].id = p})

\* C16: the merge step of process_account that merges the account and batch
\* of the merge before it leaves the tweet store, in memory and in the file,
\* unchanged; and no merge step adds a post whose id is already stored for
\* the account, in memory or in the file.
C16_MergeIsIdempotent ==
    [][(fetcher = "merge" /\ fetcher' = "idle") =>
         /\ (last_merged.user_id = user_id /\ last_merged.tweets = fetched_tweets)
              => UNCHANGED <<all_tweets, tweets_file>>
         /\ \A u \in Ids, p \in 1..MaxPosts :
              /\ Count(PostsOf(all_tweets, u), p) > 0
                   => Count(PostsOf(all_tweets', u), p) = Count(PostsOf(all_tweets, u), p)
              /\ Count(PostsOf(tweets_file, u), p) > 0
                   => Count(PostsOf(tweets_file', u), p) = Count(PostsOf(tweets_file, u), p)]_vars

\* a batch of two different posts has been merged twice in a row
C16_Witness ==
    /\ fetcher = "idle"
    /\ last_merged.times = 2
    /\ Len(last_merged.tweets) = 2
    /\ last_merged.tweets[1].id # last_merged.tweets[2].id
    /\ PostsOf(all_tweets, last_merged.user_id) = last_merged.tweets
    /\ PostsOf(tweets_file, last_merged.user_id) = last_merged.tweets

\* C17: the cursor process_account reads for an account is none when no post
\* is stored for the account, and else the greatest created_at of the stored
\* posts; and it is never before the cursor read for the account the last
\* time.
C17_CursorMovesForward ==
    [][(fetcher = "idle" /\ fetcher' = "merge") =>
         LET stored == PostsOf(all_tweets, user_id')
             cursor == cursor_used'[user_id']
         IN  /\ stored = <<>> => cursor = NoTime
             /\ stored # <<>> =>
                  /\ \E i \in DOMAIN stored : stored[i].created_at = cursor
                  /\ \A i \in DOMAIN stored : stored[i].created_at <= cursor
             /\ cursor >= cursor_used[user_id']]_vars

\* the cursor is read at the latest of two stored posts, the later of which
\* was stored first
C17_Witness ==
    /\ fetcher = "merge"
    /\ Len(PostsOf(all_tweets, user_id)) = 2
    /\ PostsOf(all_tweets, user_id)[1].created_at > PostsOf(all_tweets, user_id)[2].created_at
    /\ cursor_used[user_id] = PostsOf(all_tweets, user_id)[1].created_at

\* C18: a run of purge_irrelevant_accounts moves to the irrelevant file every
\* account of the relevant file that has no stored post newer than the
\* cutoff or whose freshly fetched followers_count is at the threshold or
\* above, and keeps every other account in the relevant file.
C18_PurgeRule ==
    [][ops' = ops + 1 =>
         \A id \in IdsOf(relevant_file) :
            IF recent_posts'[id] = 0 \/ metrics'[id] >= MAX_FOLLOWERS
            THEN ~Has(relevant_file', id) /\ Has(irrelevant_file', id)
            ELSE Has(relevant_file', id) /\ ~Has(irrelevant_file', id)]_vars

\* C19: in reevaluate_irrelevant, the step that takes the next account of
\* the snapshot submits it to process_user if and only if the account
\* carries no too_many_followers flag and fresh data was fetched for it; a
\* flagged account of the snapshot is never the one in process_user, and
\* whenever the pass saves, its record in the irrelevant map and in the
\* irrelevant file is the one of the snapshot; and when process_user ends
\* with the account classified relevant, the account is in the relevant map
\* and file and not in the irrelevant map.
C19_ReevaluatesUnflaggedOnly ==
    [][entry = "reeval" =>
         /\ pos' = pos + 1 =>
              LET account == irrelevants_dict[pos]
                  submitted == ops' = ops + 1 /\ cur'.user.id = account.id
              IN  submitted <=> (~account.too_many_followers /\ fresh_data' = "fetched")
         /\ \A i \in DOMAIN irrelevants_dict :
              irrelevants_dict[i].too_many_followers =>
                /\ cur'.user.id # irrelevants_dict[i].id
                /\ (pc # "pace" /\ pc' = "pace") =>
                     /\ Has(irrelevant_accounts', irrelevants_dict[i].id)
                     /\ Get(irrelevant_accounts', irrelevants_dict[i].id) = irrelevants_dict[i]
                     /\ irrelevant_file' # irrelevant_file =>
                          /\ Has(irrelevant_file', irrelevants_dict[i].id)
                          /\ Get(irrelevant_file', irrelevants_dict[i].id) = irrelevants_dict[i]
         /\ (pc # "pace" /\ pc' = "pace" /\ cur'.decision = "relevant") =>
              /\ Has(relevant_accounts', cur'.user.id)
              /\ Has(relevant_file', cur'.user.id)
              /\ ~Has(irrelevant_accounts', cur'.user.id)]_vars

\* the pass has skipped a flagged account and re-processed an unflagged one,
\* which is now classified relevant and stored as relevant
C19_Witness ==
    /\ entry = "reeval"
    /\ pc = "pace"
    /\ cur.decision = "relevant"
    /\ fresh_data = "fetched"
    /\ \E i \in 1..(pos - 2) : irrelevants_dict[i].too_many_followers
    /\ irrelevants_dict[pos - 1].id = cur.user.id
    /\ Has(relevant_file, cur.user.id)

C21_UnparsableFileIsKept ==
    [][corrupt # {} =>
         /\ pc' = "off"
         /\ "relevant" \in corrupt => ("relevant" \in corrupt' /\ relevant_file' = relevant_file)
         /\ "irrelevant" \in corrupt => ("irrelevant" \in corrupt' /\ irrelevant_file' = irrelevant_file)]_vars

\* C22: at no time have two processes of fetch_accounts.py both passed
\* check_existing_process and not yet ended; a process that reads from the
\* lock the pid of a running process ends without running the crawl and
\* leaves the lock; and a process that reads the pid of a dead process goes
\* on to remove the lock and write its own pid.
C22_SingleInstance ==
    [][/\ Cardinality({p \in Procs : instance'[p].pc = "crawl"}) <= 1
       /\ \A p \in Procs :
            instance[p].pc = "kill" /\ instance'[p].pc # "kill" =>
               IF Alive(instance[p].seen)
               THEN instance'[p].pc = "off" /\ lock_file' = lock_file
               ELSE instance'[p].pc = "unlink"]_vars

\* C23: an account that is in the relevant map before a step of the running
\* classifier and not after it is the account process_user has just decided
\* Irrelevant, by the metric gate or by the classifier, and it is then in
\* the irrelevant map; and an account that is in the relevant file before a
\* step and not after it is in the irrelevant file after the step, moved
\* there by a re-evaluation script in this step or demoted before by the
\* running classifier, whose irrelevant map holds it.
C23_LeavesOnlyByDemotion ==
    [][/\ pc' # "off" =>
            \A id \in IdsOf(relevant_accounts) \ IdsOf(relevant_accounts') :
               /\ cur'.user.id = id
               /\ cur'.decision \in {"metric", "irrelevant"}
               /\ Has(irrelevant_accounts', id)
       /\ \A id \in IdsOf(relevant_file) \ IdsOf(relevant_file') :
            /\ Has(irrelevant_file', id)
            /\ \/ ops' = ops + 1 /\ UNCHANGED <<pc, cur, memory>>
               \/ Has(irrelevant_accounts', id) /\ ~Has(relevant_accounts, id)]_vars

\* the activity gate has let go of a user who is stored as relevant, after
\* a load that came later than the user's classification
C23_Witness ==
    /\ pc = "pace"
    /\ cur.decision = "skip"
    /\ Has(relevant_accounts, cur.user.id)
    /\ Has(relevant_file, cur.user.id)
    /\ loaded_at > Get(relevant_file, cur.user.id).classified_at

\* C24: no record of the relevant map and no record of the relevant file
\* has the too_many_followers flag.
C24_NoFlagInRelevant ==
    /\ \A i \in DOMAIN relevant_accounts : ~relevant_accounts[i].too_many_followers
    /\ \A i \in DOMAIN relevant_file : ~relevant_file[i].too_many_followers

\* an account that was flagged in the irrelevant store has just been
\* promoted: its flagged record is still in the irrelevant file
C24_Witness ==
    /\ pc = "pace"
    /\ cur.decision = "relevant"
    /\ Has(relevant_accounts, cur.user.id)
    /\ Has(relevant_file, cur.user.id)
    /\ ~Has(irrelevant_accounts, cur.user.id)
    /\ Has(irrelevant_file, cur.user.id)
    /\ Get(irrelevant_file, cur.user.id).too_many_followers

\* C25: a record that a step puts into an account file that did not hold the
\* account before, and a record that a step of the running classifier puts
\* into a map that did not hold the account before, has classified_at equal
\* to the time of the step.
C25_MoveStampsClassifiedAt ==
    [][\A id \in Ids :
         /\ (Has(irrelevant_file', id) /\ ~Has(irrelevant_file, id))
              => Get(irrelevant_file', id).classified_at = now
         /\ (Has(relevant_file', id) /\ ~Has(relevant_file, id))
              => Get(relevant_file', id).classified_at = now
         /\ (pc # "off" /\ Has(irrelevant_accounts', id) /\ ~Has(irrelevant_accounts, id))
              => Get(irrelevant_accounts', id).classified_at = now
         /\ (pc # "off" /\ Has(relevant_accounts', id) /\ ~Has(relevant_accounts, id))
              => Get(relevant_accounts', id).classified_at = now]_vars

\* C26: when process_user ends with the account saved Irrelevant, by the
\* metric gate or by the classifier, the record in the irrelevant map and in
\* the irrelevant file has the too_many_followers flag if and only if the
\* account's followers_count is max_followers or more.
C26_FlagIffTooManyFollowers ==
    [][(pc # "pace" /\ pc' = "pace" /\ cur'.decision \in {"metric", "irrelevant"}) =>
         /\ Get(irrelevant_accounts', cur'.user.id).too_many_followers
              <=> cur'.user.followers_count >= 2000
         /\ Get(irrelevant_file', cur'.user.id).too_many_followers
              <=> cur'.user.followers_count >= 2000]_vars

\* an account with fewer followers than the threshold has been demoted for
\* its content and is not flagged, while another demoted account is flagged
C26_Witness ==
    /\ pc = "pace"
    /\ cur.decision = "irrelevant"
    /\ cur.user.followers_count < 2000
    /\ ~Get(irrelevant_file, cur.user.id).too_many_followers
    /\ \E id \in Ids :
         /\ id # cur.user.id
         /\ Has(irrelevant_file, id)
         /\ Get(irrelevant_file, id).too_many_followers

\* C27: when an attempt of a fetch call has ended in a failure that is not
\* a 429 and the client waits before the next attempt, the wait is
\* base_delay * 2^a seconds, a being the number of attempts of the call
\* before the failed one.
C27_ExponentialBackoff ==
    (response.status \notin {0, 200, 429} /\ wait_time > 0 /\ failures >= 1)
        => wait_time = 1 * 2 ^ (failures - 1)

\* C28: the step in which process_user reaches a decision for its account
\* (metric-gate demotion, activity-gate skip, Relevant or Irrelevant
\* verdict) leaves it at its pacing wait; from the pacing wait the only
\* steps are the end of the wait and the end of the process, neither of
\* which fetches or writes; and a user is handed to process_user only
\* while no other user is in it.
C28_PacingAfterEveryDecision ==
    [][/\ (cur.decision = "none" /\ cur'.decision # "none") => pc' = "pace"
       /\ pc = "pace" =>
            /\ pc' \in {"idle", "off"}
            /\ cur' = NoCur
            /\ UNCHANGED <<files, ops>>
            /\ pc' = "idle" => UNCHANGED memory
       /\ (cur'.user.id # 0 /\ cur'.user # cur.user) =>
            /\ pc = "idle"
            /\ cur = NoCur]_vars

\* the third account of a run is at its pacing wait after an activity-gate
\* skip
C28_Witness ==
    /\ pc = "pace"
    /\ cur.decision = "skip"
    /\ cur.fetched
    /\ ops >= 3

\* C29: after the clean-up at the start of fetch_tweets.py, and after every
\* merge step of process_account, which saves the store, all_tweets.json
\* holds no account with an empty list of posts.
C29_NoEmptyCollectionInFile ==
    [][(\/ fetcher = "off" /\ fetcher' = "idle"
        \/ fetcher = "merge" /\ fetcher' = "idle"
        \/ tweets_file' # tweets_file) =>
          \A i \in DOMAIN tweets_file' : tweets_file'[i].posts # <<>>]_vars

\* the file held account 1 with an empty list; it has been cleaned, and a
\* batch for account 1 has since been merged and saved
C29_Witness ==
    /\ fetcher = "idle"
    /\ last_merged.user_id = 1
    /\ Len(tweets_file) = 2
    /\ tweets_file[1].id = 2
    /\ tweets_file[2].id = 1
    /\ tweets_file[2].posts # <<>>

\* C30: every record of the irrelevant file whose classified_at is missing,
\* empty or malformed is in the irrelevant map, unchanged, after
\* load_existing_accounts.
C30_UnparsableStampIsKept ==
    [][(pc = "off" /\ pc' = "idle") =>
         \A i \in DOMAIN irrelevant_file :
            irrelevant_file[i].classified_at \in {-1, -2, -3} =>
               /\ Has(irrelevant_accounts', irrelevant_file[i].id)
               /\ Get(irrelevant_accounts', irrelevant_file[i].id) = irrelevant_file[i]]_vars

\* a load 31 days or more after time 0 has dropped the record stamped 0 and
\* kept the unflagged record with the malformed stamp
C30_Witness ==
    /\ pc = "idle"
    /\ loaded_at >= 31 * TicksPerDay
    /\ Len(irrelevant_file) = 2
    /\ irrelevant_file[1].classified_at = 0
    /\ irrelevant_file[2].classified_at = MalformedTime
    /\ irrelevant_accounts = <<irrelevant_file[2]>>

\* C31: a step puts into the relevant file an account that the file did not
\* hold only as the promotion of that account by process_user: no rewrite
\* of the file brings back an account that another entry point has moved
\* out of it.
C31_PersistedDemotionStays ==
    [][\A id \in Ids :
         (Has(relevant_file', id) /\ ~Has(relevant_file, id)) =>
            (cur'.user.id = id /\ cur'.decision = "relevant")]_vars
\* C32: fetch_recent_tweets and fetch_user_tweets return (or raise) whatever
\* the responses are, and fetch_recent_tweets never goes past the page of
\* index max_pages - 1, that is five pages for a keyword.
C32_FetchTerminates ==
    /\ [](pc = "search" => page < max_pages)
    /\ <>(pc \notin {"search", "fetch"})

\* fetch_recent_tweets has returned from its fifth page after max_retries + 1
\* failing attempts
C32_Witness ==
    /\ pc \in {"idle", "keyword"}
    /\ page = max_pages - 1
    /\ failures = max_retries + 1

\* C33: no account's collection in the tweet store, in memory or in the
\* file, holds two posts with the same id.
C33_NoDuplicatePostIds ==
    \A u \in Ids, p \in 1..MaxPosts :
        /\ Count(PostsOf(all_tweets, u), p) <= 1
        /\ Count(PostsOf(tweets_file, u), p) <= 1

IsPrefix(old, new) == Len(old) <= Len(new) /\ SubSeq(new, 1, Len(old)) = old

\* C34: the tweet store is append-only: no step changes the file, and no
\* merge step changes the memory, but by adding posts after those an account
\* already has, which stay as they are and in their order.
C34_AppendOnly ==
    [][\A u \in Ids :
          /\ IsPrefix(PostsOf(tweets_file, u), PostsOf(tweets_file', u))
          /\ (fetcher = "merge" /\ fetcher' = "idle") =>
                IsPrefix(PostsOf(all_tweets, u), PostsOf(all_tweets', u))]_vars

\* a merge has just put the post of its batch after the post the account
\* already had, in memory and in the file
C34_Witness ==
    /\ fetcher = "idle"
    /\ Len(last_merged.tweets) = 1
    /\ \E p \in 1..MaxPosts :
          /\ p # last_merged.tweets[1].id
          /\ PostsOf(all_tweets, last_merged.user_id) = <<Post(p)>> \o last_merged.tweets
          /\ PostsOf(tweets_file, last_merged.user_id) = <<Post(p)>> \o last_merged.tweets

\* C35: for every user a classifier takes up, whatever its followers_count
\* and tweet_count, the inline filter of fetch_recent_tweets accepts the user
\* exactly when meets_metric_thresholds does.
C35_FilterMatchesGate ==
    cur.user # NoUser => (PreFilter(cur.user) <=> meets_metric_thresholds(cur.user))

\* C36: every record a run of purge_irrelevant_accounts appends to the
\* irrelevant file for an account whose freshly fetched followers_count is at
\* the threshold or above carries the too_many_followers flag, also when the
\* account has no stored post newer than the cutoff.
C36_DemotionOverThresholdIsSticky ==
    [][ops' = ops + 1 =>
         \A i \in DOMAIN irrelevant_file' :
            (i > Len(irrelevant_file) /\ metrics'[irrelevant_file'[i].id] >= MAX_FOLLOWERS)
               => irrelevant_file'[i].too_many_followers]_vars

\* C37: a run of reclassify_large_accounts takes an account out of the
\* relevant file if and only if its metrics were fetched and show
\* followers_count at the threshold or above, and then the irrelevant file
\* holds the account with the flag; an account whose fetch failed keeps its
\* record in the relevant file; and every record the irrelevant file held
\* is still in it.
C37_ReclassifyRule ==
    [][(ops' = ops + 1 /\ UNCHANGED <<pc, cur, memory>>) =>
         /\ \A id \in IdsOf(relevant_file) :
               /\ ~Has(relevant_file', id)
                     <=> (metrics'[id] # Failed /\ metrics'[id] >= MAX_FOLLOWERS)
               /\ ~Has(relevant_file', id) =>
                     (Has(irrelevant_file', id) /\ Get(irrelevant_file', id).too_many_followers)
               /\ metrics'[id] = Failed =>
                     (Has(relevant_file', id) /\ Get(relevant_file', id) = Get(relevant_file, id))
         /\ \A i \in DOMAIN irrelevant_file :
               \E j \in DOMAIN irrelevant_file' : irrelevant_file'[j] = irrelevant_file[i]]_vars

NoIdInCommon(relevant, irrelevant) == IdsOf(relevant) \cap IdsOf(irrelevant) = {}

\* C38: a step in which save_account is called leaves the account it saves
\* in the in-memory map of its verdict and not in the other one, and when
\* the two maps had no id in common before the step they have none after it.
C38_MapsStayDisjoint ==
    [][(pc # "pace" /\ pc' = "pace" /\ cur'.decision \in {"metric", "relevant", "irrelevant"}) =>
         /\ IF cur'.decision = "relevant"
            THEN /\ Has(relevant_accounts', cur'.user.id)
                 /\ ~Has(irrelevant_accounts', cur'.user.id)
            ELSE /\ Has(irrelevant_accounts', cur'.user.id)
                 /\ ~Has(relevant_accounts', cur'.user.id)
         /\ NoIdInCommon(relevant_accounts, irrelevant_accounts)
               => NoIdInCommon(relevant_accounts', irrelevant_accounts')]_vars

\* save_account has just promoted an account that the process had saved as
\* irrelevant before, next to another account in the irrelevant map
C38_Witness ==
    /\ pc = "pace"
    /\ cur.decision = "relevant"
    /\ Has(relevant_accounts, cur.user.id)
    /\ Has(irrelevant_file, cur.user.id)
    /\ ~Has(irrelevant_accounts, cur.user.id)
    /\ irrelevant_accounts # <<>>
    /\ NoIdInCommon(relevant_accounts, irrelevant_accounts)

\* C39: neither accounts_relevant.json nor accounts_irrelevant.json holds
\* two records with the same account id.
C39_OneRecordPerId ==
    \A id \in Ids :
        /\ Cardinality({i \in DOMAIN relevant_file : relevant_file[i].id = id}) <= 1
        /\ Cardinality({i \in DOMAIN irrelevant_file : irrelevant_file[i].id = id}) <= 1

====
